---- MODULE Spec2Model ----
(***************************************************************************)
(* RecipientsDisplay.vue (second <script setup>, lines 123-269): the       *)
(* component that fits a list of recipients into its container and shows   *)
(* a "+N" badge for the recipients it had to hide.                         *)
(*                                                                         *)
(* Strings are sequences of one-character strings, so that length and      *)
(* concatenation are the TypeScript ones: "a, " is <<"a", ",", " ">>.      *)
(***************************************************************************)
EXTENDS Integers, Sequences, FiniteSets, TLC

\* ---------------------------------------------------------------- bounds
\* longest recipient list drawn from Identifiers
MaxN == 3
\* lengths of the long uniform lists (two-digit badge counts)
MinMany == 9
MaxMany == 10
\* largest clientWidth of the container, in pixels
MaxWidth == 200
\* size of a large window-resize step, in pixels
Jump == 16
\* width of one character as the canvas reports it (metrics.width / length)
CanvasCharWidth == 7

\* ------------------------------------------------------ program constants
\* text.length * 8 + 20 (line 171)
FallbackCharWidth == 8
FallbackAllowance == 20
\* lines 196-198
badgeLeftPadding == 2
badgeRightPadding == 2
badgeMargin == 5

\* ------------------------------------------------------------------ inputs
\* "a@x.com"
Address == << "a", "@", "x", ".", "c", "o", "m" >>

\* the empty string is a recipient the component accepts as it is
Identifiers == { << >>, Address }

Uniform(n) == [i \in 1..n |-> Address]

RecipientLists ==
    (UNION { [1..n -> Identifiers] : n \in 0..MaxN })
        \cup { Uniform(n) : n \in MinMany..MaxMany }

Widths == 0..MaxWidth

ResizeDeltas == { 0 - Jump, -1, 0, 1, Jump }

\* ------------------------------------------------------------------- state
VARIABLES
    recipients,           \* props.recipients
    clientWidth,          \* container.value.clientWidth, as laid out
    phase,                \* "setup" | "mounted" | "unmounted"
    container,            \* container.value is an element (the template is in the DOM)
    listening,            \* the window 'resize' listener is registered
    canvasSupported,      \* getContext('2d') yields a context in this host
    reusableCanvas,       \* reusableCanvas is not null
    reusableContext,      \* reusableContext is not null
    badgeInDom,           \* the v-if span 'badge-measure-element' is rendered
    displayedRecipients,  \* displayedRecipients.value
    badgeNumber,          \* badgeNumber.value
    lastPass              \* what the last fitting pass read, and where it broke

vars == << recipients, clientWidth, phase, container, listening, canvasSupported,
           reusableCanvas, reusableContext, badgeInDom, displayedRecipients,
           badgeNumber, lastPass >>

\* ------------------------------------------------------------ conversions
Digit(d) ==
    CASE d = 0 -> "0" [] d = 1 -> "1" [] d = 2 -> "2" [] d = 3 -> "3"
      [] d = 4 -> "4" [] d = 5 -> "5" [] d = 6 -> "6" [] d = 7 -> "7"
      [] d = 8 -> "8" [] d = 9 -> "9"

RECURSIVE toString(_)
toString(n) ==
    IF n < 10 THEN << Digit(n) >>
    ELSE toString(n \div 10) \o << Digit(n % 10) >>

CommaSpace == << ",", " " >>
Ellipsis == << ".", ".", "." >>
CommaEllipsis == CommaSpace \o Ellipsis

\* ------------------------------------------------------------- measuring
\* initializeCanvasIfNeeded: the canvas is created once, the context is asked
\* for whenever it is still null.
initializeCanvasIfNeeded(canvas, context, supported) ==
    [ canvas |-> TRUE, context |-> context \/ supported ]

\* reusableContext.measureText(text).width under the element's font
measureText(text) == Len(text) * CanvasCharWidth

\* calculateWidthOfTextForElement, given whether the context and the element
\* looked up by id exist at the time of the call
calculateWidthOfTextForElement(text, context, measureElement) ==
    IF context /\ measureElement
    THEN measureText(text)
    ELSE Len(text) * FallbackCharWidth + FallbackAllowance

\* the two elements the pass measures against: m.text is
\* 'recipients-text-measure-element', m.badge is 'badge-measure-element'
WidthOfText(text, m) == calculateWidthOfTextForElement(text, m.context, m.text)
WidthOfBadgeText(text, m) == calculateWidthOfTextForElement(text, m.context, m.badge)

\* ----------------------------------------------------------- fitting pass
isLastRecipient(recs, index) == index = Len(recs) - 1

recipientText_always_separated(recs, index) == recs[index + 1] \o CommaSpace

recipientText(recs, index) ==
    IF isLastRecipient(recs, index) THEN recs[index + 1]
    ELSE recs[index + 1] \o CommaSpace

badgeNumberValue_counts_first(recs, index) == Len(recs) - index

badgeNumberValue(recs, index) ==
    IF index = 0 THEN (Len(recs) - index) - 1 ELSE Len(recs) - index

\* line 199: the text measured is "+" and numberOfHiddenRecipients
widthOfBadge(recs, index, m) ==
    WidthOfBadgeText(<< "+" >> \o toString(Len(recs) - index), m)
        + badgeMargin + badgeLeftPadding + badgeRightPadding

FitTest_reversed(avail, widthOfRecipient, last, widthOfEllipses, bnv, wBadge) ==
    avail < widthOfRecipient + (IF last THEN 0 ELSE widthOfEllipses)
                + (IF bnv > 0 THEN wBadge ELSE 0)

FitTest_no_badge(avail, widthOfRecipient, last, widthOfEllipses, bnv, wBadge) ==
    avail > widthOfRecipient + (IF last THEN 0 ELSE widthOfEllipses)

\* line 207
FitTest(avail, widthOfRecipient, last, widthOfEllipses, bnv, wBadge) ==
    avail > widthOfRecipient + (IF last THEN 0 ELSE widthOfEllipses)
                + (IF bnv > 0 THEN wBadge ELSE 0)

NoFitText_blank_first(recs, index) ==
    IF index = 0 THEN << >> ELSE Ellipsis

\* line 211
NoFitText(recs, index) ==
    IF index = 0 THEN recs[index + 1] ELSE Ellipsis

\* the for loop of lines 192-217, from `index` on; brk is the index at which
\* the loop broke, -1 when it ran to the end
RECURSIVE Loop(_, _, _, _, _)
Loop(recs, index, totalAvailableContainerWidth, recipientsString, m) ==
    IF index >= Len(recs)
    THEN [ text |-> recipientsString, badge |-> 0, brk |-> -1 ]
    ELSE LET widthOfEllipses == WidthOfText(CommaEllipsis, m)
             text == recipientText(recs, index)
             widthOfRecipient == WidthOfText(text, m)
         IN  IF FitTest(totalAvailableContainerWidth, widthOfRecipient,
                        isLastRecipient(recs, index), widthOfEllipses,
                        badgeNumberValue(recs, index), widthOfBadge(recs, index, m))
             THEN Loop(recs, index + 1,
                       totalAvailableContainerWidth - widthOfRecipient,
                       recipientsString \o text, m)
             ELSE [ text |-> recipientsString \o NoFitText(recs, index),
                    badge |-> badgeNumberValue(recs, index),
                    brk |-> index ]

formatRecipientsForDisplay(recs, width, m) == Loop(recs, 0, width, << >>, m)

\* what a pass run now would measure with
Measurer ==
    [ context |-> initializeCanvasIfNeeded(reusableCanvas, reusableContext,
                                            canvasSupported).context,
      text |-> container,
      badge |-> badgeInDom ]

\* one run of formatRecipientsForDisplay reading recs, width (container.value
\* ?.clientWidth || 0) and the measurer m
RunPass(recs, width, m) ==
    \E r \in { formatRecipientsForDisplay(recs, width, m) } :
    \E c \in { initializeCanvasIfNeeded(reusableCanvas, reusableContext, canvasSupported) } :
        /\ displayedRecipients' = r.text
        /\ badgeNumber' = r.badge
        /\ lastPass' = [ width |-> width, m |-> m, brk |-> r.brk ]
        /\ reusableCanvas' = c.canvas
        /\ reusableContext' = c.context

\* --------------------------------------------------------------- lifecycle
\* <script setup> ran: watchEffect has run the pass once, with container.value
\* null and nothing in the DOM
SetupMeasurer(supported) ==
    [ context |-> initializeCanvasIfNeeded(FALSE, FALSE, supported).context,
      text |-> FALSE, badge |-> FALSE ]

Init ==
    /\ recipients \in RecipientLists
    /\ canvasSupported \in BOOLEAN
    /\ clientWidth = 0
    /\ phase = "setup"
    /\ container = FALSE
    /\ listening = FALSE
    /\ badgeInDom = FALSE
    /\ reusableCanvas = initializeCanvasIfNeeded(FALSE, FALSE, canvasSupported).canvas
    /\ reusableContext = initializeCanvasIfNeeded(FALSE, FALSE, canvasSupported).context
    /\ LET r == formatRecipientsForDisplay(recipients, 0, SetupMeasurer(canvasSupported))
       IN  /\ displayedRecipients = r.text
           /\ badgeNumber = r.badge
           /\ lastPass = [ width |-> 0, m |-> SetupMeasurer(canvasSupported),
                           brk |-> r.brk ]

\* the template is rendered from the setup pass's refs, the container ref is
\* set, onMounted registers the listener, and the watchEffect, which read
\* container.value, runs the pass again
Mount(w) ==
    /\ phase = "setup"
    /\ phase' = "mounted"
    /\ container' = TRUE
    /\ listening' = TRUE
    /\ clientWidth' = w
    /\ badgeInDom' = (badgeNumber > 0)
    /\ RunPass(recipients, w,
               [ context |-> Measurer.context, text |-> TRUE, badge |-> badgeNumber > 0 ])
    /\ UNCHANGED << recipients, canvasSupported >>

\* window 'resize': the listener runs the pass against the new layout; the
\* container comes out one pixel or one jump wider or narrower, or as wide
\* as it was
Resize(w) ==
    /\ phase = "mounted"
    /\ listening
    /\ (w - clientWidth) \in ResizeDeltas
    /\ clientWidth' = w
    /\ RunPass(recipients, w, Measurer)
    /\ UNCHANGED << recipients, phase, container, listening, canvasSupported, badgeInDom >>

\* the host passes another list: the watchEffect runs the pass
SetRecipients(recs) ==
    /\ phase = "mounted"
    /\ recs # recipients
    /\ recipients' = recs
    /\ RunPass(recs, clientWidth, Measurer)
    /\ UNCHANGED << clientWidth, phase, container, listening, canvasSupported, badgeInDom >>

\* the framework patches the DOM: the v-if badge follows badgeNumber
Render ==
    /\ phase = "mounted"
    /\ badgeInDom # (badgeNumber > 0)
    /\ badgeInDom' = (badgeNumber > 0)
    /\ UNCHANGED << recipients, clientWidth, phase, container, listening, canvasSupported,
                    reusableCanvas, reusableContext, displayedRecipients, badgeNumber,
                    lastPass >>

\* onUnmounted removes the listener; the template leaves the DOM
Unmount ==
    /\ phase = "mounted"
    /\ phase' = "unmounted"
    /\ container' = FALSE
    /\ listening' = FALSE
    /\ badgeInDom' = FALSE
    /\ UNCHANGED << recipients, clientWidth, canvasSupported, reusableCanvas,
                    reusableContext, displayedRecipients, badgeNumber, lastPass >>

Next ==
    \/ \E w \in Widths : Mount(w)
    \/ \E w \in Widths : Resize(w)
    \/ \E recs \in RecipientLists : SetRecipients(recs)
    \/ Render
    \/ Unmount

Spec == Init /\ [][Next]_vars

\* ------------------------------------------------- what the claims speak of
N == Len(recipients)

\* item i (0-based) as the pass renders it: with ", " unless it is the last
ItemText(recs, i) == IF i = Len(recs) - 1 THEN recs[i + 1] ELSE recs[i + 1] \o CommaSpace

\* the first k recipients, each followed by ", "
RECURSIVE Separated(_, _)
Separated(recs, k) ==
    IF k = 0 THEN << >> ELSE Separated(recs, k - 1) \o recs[k] \o CommaSpace

\* all recipients joined by ", "
Joined(recs) ==
    IF Len(recs) = 0 THEN << >>
    ELSE Separated(recs, Len(recs) - 1) \o recs[Len(recs)]

EndsWith(text, suffix) ==
    /\ Len(text) >= Len(suffix)
    /\ SubSeq(text, Len(text) - Len(suffix) + 1, Len(text)) = suffix

\* the measured widths of the first k item texts, under the pass's measurer
RECURSIVE SumItemWidths(_, _, _)
SumItemWidths(recs, k, m) ==
    IF k = 0 THEN 0
    ELSE SumItemWidths(recs, k - 1, m) + WidthOfText(ItemText(recs, k - 1), m)

BadgeReserve(count, m) ==
    WidthOfBadgeText(<< "+" >> \o toString(count), m)
        + badgeMargin + badgeLeftPadding + badgeRightPadding

\* the widest badge reservation for a count in 1..n
RECURSIVE MaxBadgeReserve(_, _)
MaxBadgeReserve(n, m) ==
    IF n = 0 THEN 0
    ELSE LET rest == MaxBadgeReserve(n - 1, m)
             here == BadgeReserve(n, m)
         IN  IF here > rest THEN here ELSE rest

\* the shapes a display text can take, and how many recipients each shows
IsFullShape(text, recs) == text = Joined(recs)
IsElidedShape(text, recs, k) ==
    k >= 1 /\ k < Len(recs) /\ text = Separated(recs, k) \o Ellipsis
IsLoneFirstShape(text, recs) == Len(recs) >= 1 /\ text = recs[1]

ShowsExactly(text, recs, k) ==
    \/ k = Len(recs) /\ IsFullShape(text, recs)
    \/ IsElidedShape(text, recs, k)
    \/ k = 1 /\ IsLoneFirstShape(text, recs)

C1_Roomy ==
    IF N <= 1
    THEN lastPass.width > SumItemWidths(recipients, N, lastPass.m)
    ELSE lastPass.width > SumItemWidths(recipients, N, lastPass.m)
                            + WidthOfText(CommaEllipsis, lastPass.m)
                            + MaxBadgeReserve(N, lastPass.m)

C2_SameInputsSameResult ==
    [][ (recipients' = recipients /\ lastPass'.width = lastPass.width)
          => (displayedRecipients' = displayedRecipients /\ badgeNumber' = badgeNumber) ]_vars

\* --------------------------------------------------------------- claim C3
\* C3: badgeNumber is N minus the number of recipients displayedRecipients
\* shows in full, and it is 0 exactly when all N are shown and no "..."
\* marker ends the text.
C3_BadgeCountsElided ==
    /\ ShowsExactly(displayedRecipients, recipients, N - badgeNumber)
    /\ \A k \in 0..N : ShowsExactly(displayedRecipients, recipients, k)
                          => badgeNumber = N - k
    /\ badgeNumber = 0 <=> (IsFullShape(displayedRecipients, recipients)
                              /\ lastPass.brk < 1)

C3_Witness ==
    /\ N = 3 /\ badgeNumber = 2 /\ lastPass.brk = 1
    /\ displayedRecipients = Separated(recipients, 1) \o Ellipsis

\* --------------------------------------------------------------- claim C4
\* C4 as stated (P5): badgeNumber > 0 exactly when the text ends with "..."
\* or is the first identifier alone, shown by the first-item no-fit branch.
C4_BadgeIffElidedOrLoneFirst ==
    badgeNumber > 0 <=> (EndsWith(displayedRecipients, Ellipsis) \/ lastPass.brk = 0)

\* C4 amended: badgeNumber > 0 exactly when the pass appended the "..."
\* marker (then the text ends with "...") or took the first-item no-fit
\* branch with at least two recipients; a lone recipient that does not fit
\* is shown with badgeNumber 0.
C4_BadgeIffElidedOrFirstOfMany ==
    /\ badgeNumber > 0 <=> (lastPass.brk >= 1 \/ (lastPass.brk = 0 /\ N >= 2))
    /\ lastPass.brk >= 1 <=> EndsWith(displayedRecipients, Ellipsis)
    /\ (lastPass.brk = 0 /\ N = 1) => badgeNumber = 0

C4_Witness ==
    /\ lastPass.brk = 0 /\ N = 1 /\ badgeNumber = 0
    /\ displayedRecipients = recipients[1] /\ phase = "mounted"

\* --------------------------------------------------------------- claim C5
\* C5 as stated (P4): for a non-empty recipient list the text is never the
\* empty string.
C5_NeverBlank == N >= 1 => displayedRecipients # << >>

\* C5 amended: for a non-empty recipient list whose first recipient is not
\* the empty string, the text is never the empty string.
C5_NeverBlankForNamedFirst ==
    (N >= 1 /\ recipients[1] # << >>) => displayedRecipients # << >>

C5_Witness ==
    /\ N >= 2 /\ recipients[1] # << >> /\ lastPass.width = 0 /\ lastPass.brk = 0
    /\ displayedRecipients = recipients[1]

\* --------------------------------------------------------------- claim C6
\* C6 (P2): with the list and the measurer unchanged, a pass at a width no
\* larger than the previous pass's hides at least as many recipients, and a
\* pass at a width no smaller hides at most as many.
C6_Monotone ==
    [][ (recipients' = recipients /\ lastPass'.m = lastPass.m)
          => /\ lastPass'.width <= lastPass.width => badgeNumber' >= badgeNumber
             /\ lastPass'.width >= lastPass.width => badgeNumber' <= badgeNumber ]_vars

C6_Witness ==
    /\ N = 3 /\ badgeNumber = 1 /\ phase = "mounted"
    /\ lastPass.m.context /\ lastPass.m.badge

\* --------------------------------------------------------------- claim C7
\* C7 (P3): the text is all N recipients joined by ", ", or the first k
\* (1 <= k < N) each followed by ", " and then "...", or recipients[0] alone.
C7_Shape ==
    \/ IsFullShape(displayedRecipients, recipients)
    \/ \E k \in 1..(N - 1) : IsElidedShape(displayedRecipients, recipients, k)
    \/ IsLoneFirstShape(displayedRecipients, recipients)

C7_Witness ==
    /\ N = 3 /\ lastPass.brk = 2
    /\ displayedRecipients = Separated(recipients, 2) \o Ellipsis

\* --------------------------------------------------------------- claim C8
\* C8: when index 0 takes the else branch the text is recipients[0] and
\* badgeNumber is N - 1.
C8_FirstNoFit ==
    lastPass.brk = 0 => displayedRecipients = recipients[1] /\ badgeNumber = N - 1

C8_Witness ==
    /\ lastPass.brk = 0 /\ N = 2 /\ badgeNumber = 1 /\ lastPass.width > 0
    /\ displayedRecipients = recipients[1]

\* --------------------------------------------------------------- claim C9
ShownCount == IF lastPass.brk = -1 THEN N ELSE lastPass.brk

RenderedWidth ==
    SumItemWidths(recipients, ShownCount, lastPass.m)
      + (IF lastPass.brk >= 1 THEN WidthOfText(Ellipsis, lastPass.m) ELSE 0)
      + (IF badgeNumber > 0 THEN BadgeReserve(badgeNumber, lastPass.m) ELSE 0)

\* C9 as stated: after every pass but the first-item no-fit one, the item
\* texts shown, the "..." marker and the badge shown measure strictly less
\* than the container width.
C9_NoOverflow == lastPass.brk # 0 => RenderedWidth < lastPass.width

\* C9 amended: the same, for passes over a non-empty recipient list.
C9_NoOverflowNonEmpty ==
    (N >= 1 /\ lastPass.brk # 0) => RenderedWidth < lastPass.width

C9_Witness ==
    /\ N = 3 /\ lastPass.brk = 2 /\ badgeNumber = 1
    /\ RenderedWidth < lastPass.width

\* -------------------------------------------------------------- claim C10
\* the scan of the specification: the badge reservation measures
\* "+" candidateHiddenCount
RECURSIVE SpecScan(_, _, _, _, _)
SpecScan(recs, i, remainingWidth, output, m) ==
    IF i >= Len(recs)
    THEN [ text |-> output, badge |-> 0 ]
    ELSE LET isFirst == i = 0
             isLast == i = Len(recs) - 1
             remainingItems == Len(recs) - i
             candidateHiddenCount == IF isFirst THEN remainingItems - 1 ELSE remainingItems
             badgeReserved == IF candidateHiddenCount > 0
                              THEN BadgeReserve(candidateHiddenCount, m) ELSE 0
             ellipsisReserved == IF isLast THEN 0 ELSE WidthOfText(CommaEllipsis, m)
             itemText == IF isLast THEN recs[i + 1] ELSE recs[i + 1] \o CommaSpace
             itemWidth == WidthOfText(itemText, m)
         IN  IF remainingWidth > itemWidth + ellipsisReserved + badgeReserved
             THEN SpecScan(recs, i + 1, remainingWidth - itemWidth, output \o itemText, m)
             ELSE [ text |-> output \o (IF isFirst THEN recs[i + 1] ELSE Ellipsis),
                    badge |-> candidateHiddenCount ]

\* C10: the pass gives the text and the count the specification's scan
\* gives for the same width, list and measurer.
C10_RefinesSpecScan ==
    LET s == SpecScan(recipients, 0, lastPass.width, << >>, lastPass.m)
    IN  displayedRecipients = s.text /\ badgeNumber = s.badge

====
